---- MODULE Spec2Model ----
(***************************************************************************)
(* Relativistic Doppler visualisation (src/main.cpp): the keyboard / idle  *)
(* state machine, the star generator, the Doppler calculator and the       *)
(* spectrum mapper.                                                        *)
(*                                                                         *)
(* Numeric domains.                                                        *)
(*  - observerVelocity, viewAngle and everything inside wavelengthToRGB    *)
(*    are IEEE-754 binary32 values, modelled bit-exactly: a float is a     *)
(*    pair <<m, e>> standing for m * 2^e with 2^23 <= |m| < 2^24 (or       *)
(*    <<0, 0>>), and FAdd / FSub / FMul / FDiv round to nearest, ties to   *)
(*    even.  All values of the program stay far from the overflow and      *)
(*    subnormal ranges, which are therefore not modelled.                  *)
(*  - star positions, star velocities and the Doppler factor are computed  *)
(*    in Q10 fixed point (integers counting 1/1024): sin, cos, normalize   *)
(*    and sqrt come from libm / glm, whose roundings the source does not   *)
(*    fix.  The branch structure (the clamps, the division, the square     *)
(*    root of a possibly non-positive number) is that of the source.       *)
(***************************************************************************)
EXTENDS Integers, Sequences, FiniteSets, TLC

\* ------------------------------------------------------------------------
\* binary32 arithmetic
\* ------------------------------------------------------------------------

Pow2(n) == 2 ^ n

Abs(x) == IF x < 0 THEN -x ELSE x

Sign(x) == IF x < 0 THEN -1 ELSE 1

\* Number of bits of n, for 0 <= n < 2^31.
BitLen(n) ==
    IF n < 65536
    THEN IF n < 256
         THEN IF n < 16
              THEN IF n < 4 THEN (IF n < 2 THEN n ELSE 2)
                            ELSE (IF n < 8 THEN 3 ELSE 4)
              ELSE IF n < 64 THEN (IF n < 32 THEN 5 ELSE 6)
                             ELSE (IF n < 128 THEN 7 ELSE 8)
         ELSE IF n < 4096
              THEN IF n < 1024 THEN (IF n < 512 THEN 9 ELSE 10)
                               ELSE (IF n < 2048 THEN 11 ELSE 12)
              ELSE IF n < 16384 THEN (IF n < 8192 THEN 13 ELSE 14)
                                ELSE (IF n < 32768 THEN 15 ELSE 16)
    ELSE IF n < 16777216
         THEN IF n < 1048576
              THEN IF n < 262144 THEN (IF n < 131072 THEN 17 ELSE 18)
                                 ELSE (IF n < 524288 THEN 19 ELSE 20)
              ELSE IF n < 4194304 THEN (IF n < 2097152 THEN 21 ELSE 22)
                                  ELSE (IF n < 8388608 THEN 23 ELSE 24)
         ELSE IF n < 268435456
              THEN IF n < 67108864 THEN (IF n < 33554432 THEN 25 ELSE 26)
                                   ELSE (IF n < 134217728 THEN 27 ELSE 28)
              ELSE IF n < 1073741824 THEN (IF n < 536870912 THEN 29 ELSE 30)
                                     ELSE 31

FZero == <<0, 0>>

\* The float nearest to sgn * (mag + f) * 2^e, where 0 < f < 1 when sticky and
\* f = 0 otherwise; mag < 2^31, and mag has more than 24 bits when sticky.
RoundNorm(sgn, mag, e, sticky) ==
    IF mag = 0 THEN FZero
    ELSE LET bl == BitLen(mag) IN
         IF bl <= 24
         THEN <<sgn * mag * Pow2(24 - bl), e - (24 - bl)>>
         ELSE LET sh   == bl - 24
                  q    == mag \div Pow2(sh)
                  r    == mag % Pow2(sh)
                  half == Pow2(sh - 1)
                  up   == r > half \/ (r = half /\ (sticky \/ q % 2 = 1))
                  m    == IF up THEN q + 1 ELSE q
              IN  IF m = Pow2(24) THEN <<sgn * Pow2(23), e + sh + 1>>
                                  ELSE <<sgn * m, e + sh>>

FromInt(n) == RoundNorm(Sign(n), Abs(n), 0, FALSE)

FNeg(a) == <<-a[1], a[2]>>

\* a + b for a[2] >= b[2], both non-zero: a is shifted left by at most 6 guard
\* bits, b right by the rest with a sticky bit.
AddOrdered(a, b) ==
    LET d == a[2] - b[2] IN
    IF d >= 27 THEN a
    ELSE LET g   == IF d < 6 THEN d ELSE 6
             A   == a[1] * Pow2(g)
             B   == Abs(b[1]) \div Pow2(d - g)
             st  == Abs(b[1]) % Pow2(d - g) # 0
             same == Sign(a[1]) = Sign(b[1])
             s   == IF same THEN Abs(A) + B
                    ELSE IF st THEN Abs(A) - B - 1 ELSE Abs(A) - B
             sg  == IF s < 0 THEN -Sign(a[1]) ELSE Sign(a[1])
         IN  RoundNorm(sg, Abs(s), a[2] - g, st)

FAdd(a, b) ==
    IF a[1] = 0 THEN b
    ELSE IF b[1] = 0 THEN a
    ELSE IF a[2] >= b[2] THEN AddOrdered(a, b) ELSE AddOrdered(b, a)

FSub(a, b) == FAdd(a, FNeg(b))

\* 24 x 24 bit product through 12-bit halves, kept as hi * 2^24 + lo.
FMul(a, b) ==
    IF a[1] = 0 \/ b[1] = 0 THEN FZero
    ELSE LET ma  == Abs(a[1])
             mb  == Abs(b[1])
             a1  == ma \div 4096
             a0  == ma % 4096
             b1  == mb \div 4096
             b0  == mb % 4096
             mid == a1 * b0 + a0 * b1
             low == (mid % 4096) * 4096 + a0 * b0
             hi  == a1 * b1 + mid \div 4096 + low \div Pow2(24)
             lo  == low % Pow2(24)
         IN  RoundNorm(Sign(a[1]) * Sign(b[1]), hi * 64 + lo \div Pow2(18),
                       a[2] + b[2] + 18, lo % Pow2(18) # 0)

\* Long division, 7 quotient bits a step; b is non-zero.
FDiv(a, b) ==
    IF a[1] = 0 THEN FZero
    ELSE LET ma == Abs(a[1])
             mb == Abs(b[1])
             q0 == ma \div mb
             r0 == ma % mb
             q1 == (r0 * 128) \div mb
             r1 == (r0 * 128) % mb
             q2 == (r1 * 128) \div mb
             r2 == (r1 * 128) % mb
             q3 == (r2 * 128) \div mb
             r3 == (r2 * 128) % mb
             q4 == (r3 * 128) \div mb
             r4 == (r3 * 128) % mb
         IN  RoundNorm(Sign(a[1]) * Sign(b[1]),
                       q0 * Pow2(28) + q1 * Pow2(21) + q2 * Pow2(14) + q3 * 128 + q4,
                       a[2] - b[2] - 28, r4 # 0)

\* a < b, on the normalised pairs.
FLt(a, b) ==
    IF a[1] = 0 THEN b[1] > 0
    ELSE IF b[1] = 0 THEN a[1] < 0
    ELSE IF (a[1] < 0) # (b[1] < 0) THEN a[1] < 0
    ELSE IF a[1] > 0 THEN a[2] < b[2] \/ (a[2] = b[2] /\ a[1] < b[1])
    ELSE a[2] > b[2] \/ (a[2] = b[2] /\ a[1] < b[1])

FLeq(a, b) == a = b \/ FLt(a, b)

FGt(a, b) == FLt(b, a)

\* A decimal literal n/d of the source, as the compiler converts it.
Lit(n, d) == FDiv(FromInt(n), FromInt(d))

\* +infinity, kept as 2^128 (above every finite binary32), and NaN.
FInf == <<Pow2(23), 105>>

FNaN == <<0, 1>>

IsNaN(a) == a = FNaN

\* The C++ comparison a < b: false when either side is NaN.
Less(a, b) == ~IsNaN(a) /\ ~IsNaN(b) /\ FLt(a, b)

LessEq(a, b) == ~IsNaN(a) /\ ~IsNaN(b) /\ FLeq(a, b)

\* glm::max(x, y) is (x < y) ? y : x, glm::min(x, y) is (y < x) ? y : x.
GlmClamp(x, lo, hi) ==
    LET mx == IF Less(x, lo) THEN lo ELSE x
    IN  IF Less(hi, mx) THEN hi ELSE mx

\* ------------------------------------------------------------------------
\* Q10 fixed point
\* ------------------------------------------------------------------------

One == 2 ^ 10

\* The Q10 number nearest to n/d (d > 0).
QLit(n, d) == (2 * n * One + d) \div (2 * d)

\* The Q10 number nearest to a float of magnitude below 2^20.
ToQ10(a) ==
    IF a[2] + 10 >= 0 THEN a[1] * Pow2(a[2] + 10)
    ELSE IF a[2] + 10 < -25 THEN 0
    ELSE (a[1] + Pow2(-a[2] - 11)) \div Pow2(-a[2] - 10)

\* A non-negative Q10 number below 2^31 as a float.
FromQ10(q) == RoundNorm(1, q, -10, FALSE)

RECURSIVE IsqrtBits(_, _, _)
IsqrtBits(n, res, bit) ==
    IF bit = 0 THEN res
    ELSE LET t == res + bit
         IN  IsqrtBits(n, IF t <= 46340 /\ t * t <= n THEN t ELSE res, bit \div 2)

\* floor(sqrt(n)) for 0 <= n < 2^31.
Isqrt(n) == IsqrtBits(n, 0, 32768)

dot(a, b) == a[1] * b[1] + a[2] * b[2] + a[3] * b[3]

Vsub(a, b) == <<a[1] - b[1], a[2] - b[2], a[3] - b[3]>>

\* ------------------------------------------------------------------------
\* Constants of the program
\* ------------------------------------------------------------------------

GALAXY_RADIUS == 15

MAX_VELOCITY == QLit(1, 2)

SPEED_OF_LIGHT == 1

FLAT_ROTATION_VELOCITY == QLit(1, 2)

OBSERVER_POSITION_Z == 20

VelStep == Lit(1, 100)

VelMax == Lit(9, 10)

TurnStep == FromInt(5)

IdleStep == Lit(1, 10)

FullTurn == FromInt(360)

BaseWavelength == Lit(1, 2)

\* ------------------------------------------------------------------------
\* Spectrum Mapper
\* ------------------------------------------------------------------------

F0_25 == Lit(25, 100)

F0_4 == Lit(4, 10)

F0_55 == Lit(55, 100)

F0_6 == Lit(6, 10)

F0_75 == Lit(75, 100)

F0_15 == Lit(15, 100)

F0_05 == Lit(5, 100)

F0_5 == Lit(1, 2)

F1_0 == FromInt(1)

wavelengthToRGB(wavelength) ==
    IF LessEq(wavelength, F0_25)
    THEN <<FMul(F0_5, FDiv(wavelength, F0_25)),
           FZero,
           FAdd(F0_5, FMul(F0_5, FDiv(wavelength, F0_25)))>>
    ELSE IF LessEq(wavelength, F0_4)
    THEN <<FZero, FDiv(FSub(wavelength, F0_25), F0_15), F1_0>>
    ELSE IF LessEq(wavelength, F0_55)
    THEN <<FZero, F1_0, FSub(F1_0, FDiv(FSub(wavelength, F0_4), F0_15))>>
    ELSE IF LessEq(wavelength, F0_6)
    THEN <<FDiv(FSub(wavelength, F0_55), F0_05), F1_0, FZero>>
    ELSE IF LessEq(wavelength, F0_75)
    THEN <<F1_0, FSub(F1_0, FDiv(FSub(wavelength, F0_6), F0_15)), FZero>>
    ELSE <<F1_0, FZero, FZero>>

\* ------------------------------------------------------------------------
\* Doppler Calculator
\* ------------------------------------------------------------------------

\* sqrt(num / den) as the float division and sqrt deliver it: x/0 is an
\* infinity (0/0 a NaN), the square root of a negative number a NaN.
SqrtRatio(num, den) ==
    IF den = 0 THEN (IF num > 0 THEN FInf ELSE FNaN)
    ELSE IF (num < 0) # (den < 0) /\ num # 0 THEN FNaN
    ELSE FromQ10(Isqrt((Abs(num) * One * One) \div Abs(den)))

\* Mutant: the comparisons of the clamp made strict.
ClampBeta_Strict(beta) ==
    IF beta > One THEN QLit(99, 100)
    ELSE IF beta < -One THEN -QLit(99, 100)
    ELSE beta

\* Mutant: the lower clamp lost.
ClampBeta_UpperOnly(beta) == IF beta >= One THEN QLit(99, 100) ELSE beta

BetaCap == QLit(99, 100)

\* The beta handed to the square root.
ClampBeta(beta) ==
    IF beta >= One THEN BetaCap
    ELSE IF beta <= -One THEN -BetaCap
    ELSE beta

calculateRelativisticDopplerShift(starVelocity, observerVel) ==
    LET toObserver == Vsub(<<0, 0, OBSERVER_POSITION_Z * One>>, starVelocity)
        len        == Isqrt(dot(toObserver, toObserver))
    IN  IF len = 0
        THEN [len |-> 0, rawBeta |-> 0, beta |-> 0, num |-> 0, den |-> 0,
              dopplerFactor |-> FNaN]
        ELSE LET lineOfSight == [i \in 1..3 |-> (toObserver[i] * One) \div len]
                 relativeVelocity ==
                     dot(Vsub(starVelocity, observerVel), lineOfSight) \div One
                 raw  == (relativeVelocity * One) \div (SPEED_OF_LIGHT * One)
                 beta == ClampBeta(raw)
             IN  [len |-> len, rawBeta |-> raw, beta |-> beta,
                  num |-> One + beta, den |-> One - beta,
                  dopplerFactor |-> SqrtRatio(One + beta, One - beta)]

\* wavelength * factor, clamped to the visible spectrum and mapped to a colour
\* (main.cpp 147-150, 165-168, 180-183, 188-191).
ShiftedColor(velocity, observerVelocityNow) ==
    LET dopplerFactor ==
            calculateRelativisticDopplerShift(
                velocity, <<0, 0, ToQ10(observerVelocityNow)>>).dopplerFactor
        shiftedWavelength ==
            IF IsNaN(dopplerFactor) THEN FNaN
            ELSE FMul(BaseWavelength, dopplerFactor)
    IN  wavelengthToRGB(GlmClamp(shiftedWavelength, FZero, F1_0))

\* ------------------------------------------------------------------------
\* Bounds of the model
\* ------------------------------------------------------------------------

\* Stars per population (NUM_STARS is 100000 in the source).
NumStars == 1

\* Events of one kind explored in a row: presses of W or of S, presses of A or
\* of D, idle ticks, presses of K or of F; and the events of other kinds
\* explored around such a run.
MaxVelRun == 96

MaxTurnRun == 75

MaxIdleRun == 3

MaxToggleRun == 2

MaxMix == 1

\* Steps of the wavelength grid of SpecRGB, largest radius of SpecDoppler.
GridN == 100

RunCap == [w |-> MaxVelRun, s |-> MaxVelRun, a |-> MaxTurnRun, d |-> MaxTurnRun,
           k |-> MaxToggleRun, f |-> MaxToggleRun, idle |-> MaxIdleRun]

\* ------------------------------------------------------------------------
\* Star Field Generator
\* ------------------------------------------------------------------------

\* cos and sin of k * pi/4, in Q10.
AngleCos(k) == <<One, QLit(7071, 10000), 0, -QLit(7071, 10000),
                 -One, -QLit(7071, 10000), 0, QLit(7071, 10000)>>[k + 1]

AngleSin(k) == <<0, QLit(7071, 10000), One, QLit(7071, 10000),
                 0, -QLit(7071, 10000), -One, -QLit(7071, 10000)>>[k + 1]

\* One draw of (angle, radius, height): angle in [0, 2 pi), radius in
\* [0.1, GALAXY_RADIUS], height in [-0.5, 0.5].
Draw(k, radius, height) == [angle |-> k, radius |-> radius, height |-> height]

Samples == {Draw(0, QLit(29, 2), 0), Draw(2, QLit(1, 10), -QLit(1, 2))}

\* main.cpp 126
StarPosition(draw) ==
    <<(draw.radius * AngleCos(draw.angle)) \div One,
      draw.height,
      (draw.radius * AngleSin(draw.angle)) \div One>>

\* main.cpp 138-141: sqrt(GALAXY_RADIUS / (radius + 0.1)) through a Q20 quotient.
KeplerianVelocity(draw) ==
    LET n     == GALAXY_RADIUS * One * One
        d     == draw.radius + QLit(1, 10)
        ratio == (n \div d) * One + ((n % d) * One) \div d
        keplerianSpeed == (MAX_VELOCITY * Isqrt(ratio)) \div One
        tangentX == -AngleSin(draw.angle)
        tangentZ == AngleCos(draw.angle)
    IN  <<(keplerianSpeed * tangentX) \div One, 0,
          (keplerianSpeed * tangentZ) \div One>>

\* main.cpp 159
FlatVelocity(draw) ==
    LET tangentX == -AngleSin(draw.angle)
        tangentZ == AngleCos(draw.angle)
    IN  <<(FLAT_ROTATION_VELOCITY * tangentX) \div One, 0,
          (FLAT_ROTATION_VELOCITY * tangentZ) \div One>>

\* A Star of either population, as initializeStars fills it.
NewStar(draw, velocity, observerVelocityNow) ==
    [position |-> StarPosition(draw),
     velocity |-> velocity,
     color |-> wavelengthToRGB(BaseWavelength),
     dopplerShiftedColor |-> ShiftedColor(velocity, observerVelocityNow)]

\* ------------------------------------------------------------------------
\* State
\* ------------------------------------------------------------------------

VARIABLES
    showKeplerian,      \* bool showKeplerian
    showFlatRotation,   \* bool showFlatRotation
    viewAngle,          \* float viewAngle
    observerVelocity,   \* float observerVelocity
    keplerianStars,     \* std::vector<Star> keplerianStars
    flatRotationStars,  \* std::vector<Star> flatRotationStars
    started,            \* initializeStars has run and the callbacks are set
    generated,          \* history: both populations as initializeStars left them
    count,              \* history: events since start or the last reset, by kind
    probe               \* input and result of the pure-function specifications

vars == <<showKeplerian, showFlatRotation, viewAngle, observerVelocity,
          keplerianStars, flatRotationStars, started, generated, count, probe>>

NoCount == [w |-> 0, s |-> 0, a |-> 0, d |-> 0, k |-> 0, f |-> 0, idle |-> 0]

Total(c) == c.w + c.s + c.a + c.d + c.k + c.f + c.idle

Largest(c) ==
    CHOOSE n \in {c.w, c.s, c.a, c.d, c.k, c.f, c.idle} :
        \A m \in {c.w, c.s, c.a, c.d, c.k, c.f, c.idle} : m <= n

\* The exploration bound: an event of kind e is taken while its kind stays
\* within its run and at most MaxMix events fall outside the longest run.
Explored(e) ==
    LET after == [count EXCEPT ![e] = @ + 1]
    IN  after[e] <= RunCap[e] /\ Total(after) - Largest(after) <= MaxMix

Globals ==
    /\ showKeplerian = TRUE
    /\ showFlatRotation = TRUE
    /\ viewAngle = FZero
    /\ observerVelocity = FZero
    /\ keplerianStars = <<>>
    /\ flatRotationStars = <<>>
    /\ started = FALSE
    /\ generated = <<>>
    /\ count = NoCount

Init == Globals /\ probe = [stage |-> "off"]

\* main.cpp 116-172, called once from main before the callbacks are set.
initializeStars ==
    /\ ~started
    /\ probe.stage = "off"
    /\ \E draws \in [1..NumStars -> Samples] :
          /\ keplerianStars' =
                [i \in 1..NumStars |->
                    NewStar(draws[i], KeplerianVelocity(draws[i]), observerVelocity)]
          /\ flatRotationStars' =
                [i \in 1..NumStars |->
                    NewStar(draws[i], FlatVelocity(draws[i]), observerVelocity)]
    /\ generated' = <<keplerianStars', flatRotationStars'>>
    /\ started' = TRUE
    /\ UNCHANGED <<showKeplerian, showFlatRotation, viewAngle, observerVelocity,
                   count, probe>>

\* Mutant: the line of sight taken relative to the observer's motion by moving
\* the star (star.velocity -= observerVel) before the colour is computed.
updateDopplerShifts_Moves(stars, observerVelocityNow) ==
    [i \in 1..Len(stars) |->
        [stars[i] EXCEPT
            !.velocity = Vsub(@, <<0, 0, ToQ10(observerVelocityNow)>>),
            !.dopplerShiftedColor =
                ShiftedColor(stars[i].velocity, observerVelocityNow)]]

\* Mutant: the new colour blended with the colour shown before.
updateDopplerShifts_Blend(stars, observerVelocityNow) ==
    [i \in 1..Len(stars) |->
        [stars[i] EXCEPT !.dopplerShiftedColor =
            LET new == ShiftedColor(stars[i].velocity, observerVelocityNow)
            IN  [ch \in 1..3 |-> FMul(F0_5, FAdd(@[ch], new[ch]))]]]

\* main.cpp 175-193, one of its two loops: only dopplerShiftedColor is written.
updateDopplerShifts(stars, observerVelocityNow) ==
    [i \in 1..Len(stars) |->
        [stars[i] EXCEPT !.dopplerShiftedColor =
            ShiftedColor(stars[i].velocity, observerVelocityNow)]]

Refresh(observerVelocityNow) ==
    /\ keplerianStars' = updateDopplerShifts(keplerianStars, observerVelocityNow)
    /\ flatRotationStars' = updateDopplerShifts(flatRotationStars, observerVelocityNow)

\* Mutants: the clamp of the handler lost.
IncreasedVelocity_NoClamp(v) == FAdd(v, VelStep)

DecreasedVelocity_NoClamp(v) == FSub(v, VelStep)

\* main.cpp 334-335
IncreasedVelocity(v) ==
    LET w == FAdd(v, VelStep) IN IF FGt(w, VelMax) THEN VelMax ELSE w

\* main.cpp 339-340
DecreasedVelocity(v) ==
    LET w == FSub(v, VelStep) IN IF FLt(w, FNeg(VelMax)) THEN FNeg(VelMax) ELSE w

\* case 'w'
KeyW ==
    /\ started
    /\ Explored("w")
    /\ observerVelocity' = IncreasedVelocity(observerVelocity)
    /\ Refresh(observerVelocity')
    /\ count' = [count EXCEPT !.w = @ + 1]
    /\ UNCHANGED <<showKeplerian, showFlatRotation, viewAngle, started,
                   generated, probe>>

\* Mutant: the handler without its call of updateDopplerShifts.
KeyS_NoRefresh ==
    /\ started
    /\ Explored("s")
    /\ observerVelocity' = DecreasedVelocity(observerVelocity)
    /\ count' = [count EXCEPT !.s = @ + 1]
    /\ UNCHANGED <<showKeplerian, showFlatRotation, viewAngle, keplerianStars,
                   flatRotationStars, started, generated, probe>>

\* case 's'
KeyS ==
    /\ started
    /\ Explored("s")
    /\ observerVelocity' = DecreasedVelocity(observerVelocity)
    /\ Refresh(observerVelocity')
    /\ count' = [count EXCEPT !.s = @ + 1]
    /\ UNCHANGED <<showKeplerian, showFlatRotation, viewAngle, started,
                   generated, probe>>

\* case 'a'
KeyA ==
    /\ started
    /\ Explored("a")
    /\ viewAngle' = FSub(viewAngle, TurnStep)
    /\ count' = [count EXCEPT !.a = @ + 1]
    /\ UNCHANGED <<showKeplerian, showFlatRotation, observerVelocity,
                   keplerianStars, flatRotationStars, started, generated, probe>>

\* case 'd'
KeyD ==
    /\ started
    /\ Explored("d")
    /\ viewAngle' = FAdd(viewAngle, TurnStep)
    /\ count' = [count EXCEPT !.d = @ + 1]
    /\ UNCHANGED <<showKeplerian, showFlatRotation, observerVelocity,
                   keplerianStars, flatRotationStars, started, generated, probe>>

\* case 'k'
KeyK ==
    /\ started
    /\ Explored("k")
    /\ showKeplerian' = ~showKeplerian
    /\ count' = [count EXCEPT !.k = @ + 1]
    /\ UNCHANGED <<showFlatRotation, viewAngle, observerVelocity, keplerianStars,
                   flatRotationStars, started, generated, probe>>

\* case 'f'
KeyF ==
    /\ started
    /\ Explored("f")
    /\ showFlatRotation' = ~showFlatRotation
    /\ count' = [count EXCEPT !.f = @ + 1]
    /\ UNCHANGED <<showKeplerian, viewAngle, observerVelocity, keplerianStars,
                   flatRotationStars, started, generated, probe>>

\* Mutant: reset without its call of updateDopplerShifts.
KeyR_NoRefresh ==
    /\ started
    /\ viewAngle' = FZero
    /\ observerVelocity' = FZero
    /\ showKeplerian' = TRUE
    /\ showFlatRotation' = TRUE
    /\ count' = NoCount
    /\ UNCHANGED <<keplerianStars, flatRotationStars, started, generated, probe>>

\* case 'r'
KeyR ==
    /\ started
    /\ viewAngle' = FZero
    /\ observerVelocity' = FZero
    /\ showKeplerian' = TRUE
    /\ showFlatRotation' = TRUE
    /\ Refresh(observerVelocity')
    /\ count' = NoCount
    /\ UNCHANGED <<started, generated, probe>>

\* main.cpp 379-385
idle ==
    /\ started
    /\ Explored("idle")
    /\ viewAngle' = LET a == FAdd(viewAngle, IdleStep)
                    IN  IF FGt(a, FullTurn) THEN FSub(a, FullTurn) ELSE a
    /\ count' = [count EXCEPT !.idle = @ + 1]
    /\ UNCHANGED <<showKeplerian, showFlatRotation, observerVelocity,
                   keplerianStars, flatRotationStars, started, generated, probe>>

Next ==
    \/ initializeStars
    \/ KeyW
    \/ KeyS
    \/ KeyA
    \/ KeyD
    \/ KeyK
    \/ KeyF
    \/ KeyR
    \/ idle

Spec == Init /\ [][Next]_vars

\* ------------------------------------------------------------------------
\* The Spectrum Mapper and the Doppler Calculator as pure functions
\* ------------------------------------------------------------------------

\* Wavelengths in [0, 1]: k / GridN, and the five segment boundaries as the
\* source writes them.
WavelengthGrid ==
    {Lit(k, GridN) : k \in 0..GridN} \cup {F0_25, F0_4, F0_55, F0_6, F0_75}

InitRGB ==
    /\ Globals
    /\ \E w \in WavelengthGrid : probe = [stage |-> "wavelength", wavelength |-> w]

MapSpectrum ==
    /\ probe.stage = "wavelength"
    /\ probe' = [stage |-> "rgb", wavelength |-> probe.wavelength,
                 rgb |-> wavelengthToRGB(probe.wavelength)]
    /\ UNCHANGED <<showKeplerian, showFlatRotation, viewAngle, observerVelocity,
                   keplerianStars, flatRotationStars, started, generated, count>>

NextRGB == MapSpectrum

SpecRGB == InitRGB /\ [][NextRGB]_vars

\* Radii 0.1, 0.5, 1, ..., GALAXY_RADIUS; the eight angles; observer
\* velocities -0.90, -0.89, ..., 0.90.
RadiusGrid == {QLit(1, 10)} \cup {QLit(k, 2) : k \in 1..(2 * GALAXY_RADIUS)}

VelocityGrid ==
    {v \in {Lit(h, 100) : h \in -100..100} : FLeq(FNeg(VelMax), v) /\ FLeq(v, VelMax)}

StarVelocities ==
    {KeplerianVelocity(Draw(k, r, 0)) : k \in 0..7, r \in RadiusGrid}
        \cup {FlatVelocity(Draw(k, QLit(1, 10), 0)) : k \in 0..7}

InitDoppler ==
    /\ Globals
    /\ \E sv \in StarVelocities, v \in VelocityGrid :
          probe = [stage |-> "velocities", starVelocity |-> sv,
                   observerVel |-> <<0, 0, ToQ10(v)>>]

ShiftDoppler ==
    /\ probe.stage = "velocities"
    /\ probe' = [stage |-> "shift", starVelocity |-> probe.starVelocity,
                 observerVel |-> probe.observerVel,
                 shift |-> calculateRelativisticDopplerShift(
                               probe.starVelocity, probe.observerVel)]
    /\ UNCHANGED <<showKeplerian, showFlatRotation, viewAngle, observerVelocity,
                   keplerianStars, flatRotationStars, started, generated, count>>

NextDoppler == ShiftDoppler

SpecDoppler == InitDoppler /\ [][NextDoppler]_vars

\* ------------------------------------------------------------------------
\* Properties
\* ------------------------------------------------------------------------

Populations == <<keplerianStars, flatRotationStars>>

\* What the Shift Updater must leave alone.
Geometry(stars) ==
    [i \in 1..Len(stars) |->
        [position |-> stars[i].position, velocity |-> stars[i].velocity,
         color |-> stars[i].color]]

Displayed(stars) == [i \in 1..Len(stars) |-> stars[i].dopplerShiftedColor]

Coherent(stars) ==
    \A i \in 1..Len(stars) :
        stars[i].dopplerShiftedColor =
            ShiftedColor(stars[i].velocity, observerVelocity)

InUnit(x) == ~IsNaN(x) /\ FLeq(FZero, x) /\ FLeq(x, F1_0)

\* A float of magnitude below 2 that is a multiple of 2^-30, counted in 2^-30.
Q30(a) ==
    IF a[2] + 30 >= 0 THEN a[1] * Pow2(a[2] + 30) ELSE a[1] \div Pow2(-a[2] - 30)

VelInRange == FLeq(FNeg(VelMax), observerVelocity) /\ FLeq(observerVelocity, VelMax)

\* C1: after initializeStars and any events, every star of both populations
\* shows the colour of its velocity shifted for the current observerVelocity.
C1_CacheCoherent ==
    started => Coherent(keplerianStars) /\ Coherent(flatRotationStars)

C1_Witness ==
    /\ started
    /\ observerVelocity # FZero
    /\ Displayed(keplerianStars) # Displayed(generated[1])
    /\ Displayed(flatRotationStars) # Displayed(generated[2])

\* C2, as claimed: observerVelocity stays in [-0.9, 0.9], and each W / S moves
\* it by exactly the step 0.01 unless the clamp applies.
C2_ExactStep ==
    [][/\ VelInRange'
       /\ count'.w = count.w + 1 =>
             \/ Q30(observerVelocity') = Q30(observerVelocity) + Q30(VelStep)
             \/ /\ Q30(observerVelocity) + Q30(VelStep) > Q30(VelMax)
                /\ observerVelocity' = VelMax
       /\ count'.s = count.s + 1 =>
             \/ Q30(observerVelocity') = Q30(observerVelocity) - Q30(VelStep)
             \/ /\ Q30(observerVelocity) - Q30(VelStep) < -Q30(VelMax)
                /\ observerVelocity' = FNeg(VelMax)]_vars

\* C2, amended: observerVelocity stays in [-0.9, 0.9], and each W / S moves it
\* by the step 0.01 rounded to binary32 (within 2^-25 of the exact step)
\* unless the clamp applies.
C2_RoundedStep ==
    [][/\ VelInRange'
       /\ count'.w = count.w + 1 =>
             \/ Abs(Q30(observerVelocity') - Q30(observerVelocity) - Q30(VelStep))
                    <= Pow2(5)
             \/ /\ Q30(observerVelocity) + Q30(VelStep) > Q30(VelMax)
                /\ observerVelocity' = VelMax
       /\ count'.s = count.s + 1 =>
             \/ Abs(Q30(observerVelocity') - Q30(observerVelocity) + Q30(VelStep))
                    <= Pow2(5)
             \/ /\ Q30(observerVelocity) - Q30(VelStep) < -Q30(VelMax)
                /\ observerVelocity' = FNeg(VelMax)]_vars

C2_Witness ==
    /\ count.s = 0
    /\ count.w = 90
    /\ VelInRange
    /\ Q30(observerVelocity) # 90 * Q30(VelStep)

\* C3, as claimed: consecutive increases from 0 reach 0.9 at the 90th and stay
\* there (in particular after the 95th).
C3_SaturatesAt90 ==
    count.s = 0 =>
        /\ count.w >= 90 => observerVelocity = VelMax
        /\ count.w < 90 => FLt(observerVelocity, VelMax)

\* C3, amended: consecutive increases from 0 reach 0.9 at the 91st (after the
\* 90th the sum of the rounded steps is still below 0.9) and stay there, in
\* particular after the 95th.
C3_SaturatesAt91 ==
    count.s = 0 =>
        /\ count.w >= 91 => observerVelocity = VelMax
        /\ count.w < 91 => FLt(observerVelocity, VelMax)

C3_Witness == count.s = 0 /\ count.w = 95 /\ observerVelocity = VelMax

\* C4: after every idle tick, 0 <= viewAngle < 360.
C4_IdleWraps ==
    [][count'.idle = count.idle + 1 =>
          FLeq(FZero, viewAngle') /\ FLt(viewAngle', FullTurn)]_vars

\* C5: reset yields viewAngle = 0, observerVelocity = 0, both toggles true and
\* the colours of generation, and leaves positions and velocities alone.
C5_Reset ==
    [][KeyR =>
          /\ viewAngle' = FZero
          /\ observerVelocity' = FZero
          /\ showKeplerian' /\ showFlatRotation'
          /\ Populations' = generated
          /\ Geometry(keplerianStars') = Geometry(keplerianStars)
          /\ Geometry(flatRotationStars') = Geometry(flatRotationStars)]_vars

C5_Witness ==
    /\ started
    /\ ~showKeplerian
    /\ observerVelocity # FZero
    /\ Populations # generated

\* C6: after generation no step changes a star's position, velocity or base
\* colour, nor the size of a population.
C6_Frame ==
    [][started =>
          /\ Len(keplerianStars') = Len(keplerianStars)
          /\ Len(flatRotationStars') = Len(flatRotationStars)
          /\ Geometry(keplerianStars') = Geometry(keplerianStars)
          /\ Geometry(flatRotationStars') = Geometry(flatRotationStars)]_vars

C6_Witness ==
    /\ started
    /\ count.w > 0
    /\ Displayed(keplerianStars) # Displayed(generated[1])
    /\ Geometry(keplerianStars) = Geometry(generated[1])
    /\ Geometry(flatRotationStars) = Geometry(generated[2])

\* C7, as claimed: the beta handed to the square root is within [-0.99, 0.99].
C7_BetaWithinCap ==
    probe.stage = "shift" =>
        -BetaCap <= probe.shift.beta /\ probe.shift.beta <= BetaCap

\* C7, amended: the beta handed to the square root is strictly between -1 and
\* 1: a raw beta >= 1 becomes 0.99, a raw beta <= -1 becomes -0.99, and any
\* other raw beta, those between 0.99 and 1 included, is passed unchanged.
C7_BetaBelowOne ==
    probe.stage = "shift" =>
        LET raw == probe.shift.rawBeta
            beta == probe.shift.beta
        IN  /\ -One < beta /\ beta < One
            /\ raw >= One => beta = BetaCap
            /\ raw <= -One => beta = -BetaCap
            /\ (-One < raw /\ raw < One) => beta = raw

C7_Witness ==
    /\ probe.stage = "shift"
    /\ probe.shift.rawBeta > BetaCap
    /\ probe.shift.rawBeta < One
    /\ probe.shift.beta = probe.shift.rawBeta

\* C8: the line of sight is non-zero, 1 - beta > 0 and 1 + beta > 0, a raw
\* beta beyond +-1 is replaced by +-0.99, and the factor is finite and > 0.
C8_FiniteFactor ==
    probe.stage = "shift" =>
        LET r == probe.shift
        IN  /\ r.len > 0
            /\ r.rawBeta >= One => r.beta = BetaCap
            /\ r.rawBeta <= -One => r.beta = -BetaCap
            /\ r.den > 0 /\ r.num > 0
            /\ ~IsNaN(r.dopplerFactor)
            /\ FLt(FZero, r.dopplerFactor) /\ FLt(r.dopplerFactor, FInf)

C8_Witness ==
    /\ probe.stage = "shift"
    /\ probe.shift.rawBeta = One
    /\ FLt(FZero, probe.shift.dopplerFactor)
    /\ FLt(probe.shift.dopplerFactor, FInf)

\* C9: for every wavelength of [0, 1], each channel of wavelengthToRGB is in
\* [0, 1]; the lower segment applies at each boundary.
C9_ChannelsInUnit ==
    probe.stage = "rgb" =>
        /\ \A ch \in 1..3 : InUnit(probe.rgb[ch])
        /\ probe.wavelength = F0_25 => probe.rgb[2] = FZero
        /\ probe.wavelength = F0_4 => probe.rgb[3] = F1_0
        /\ probe.wavelength = F0_55 => probe.rgb[1] = FZero
        /\ probe.wavelength = F0_6 => probe.rgb[2] = F1_0
        /\ probe.wavelength = F0_75 => probe.rgb[1] = F1_0 /\ probe.rgb[3] = FZero

\* C10: with observerVelocity unchanged, running the Shift Updater again, once
\* or twice, leaves every displayed colour as it is.
C10_Idempotent ==
    started =>
        LET k1 == updateDopplerShifts(keplerianStars, observerVelocity)
            f1 == updateDopplerShifts(flatRotationStars, observerVelocity)
        IN  /\ k1 = keplerianStars
            /\ f1 = flatRotationStars
            /\ updateDopplerShifts(k1, observerVelocity) = k1
            /\ updateDopplerShifts(f1, observerVelocity) = f1

C10_Witness ==
    /\ count.s = 0
    /\ count.w = 92
    /\ observerVelocity = VelMax
    /\ Displayed(keplerianStars) # Displayed(generated[1])

====
